---- MODULE Spec2Model ----
(***************************************************************************)
(* mrusty, src/mruby_ffi.rs: the Tagged Value (MrValue), its outbound      *)
(* constructors, its inbound converters and the Rc<RefCell<T>> bridge      *)
(* through the interpreter's Data objects.                                 *)
(*                                                                         *)
(* An MrValue is the 16-byte buffer of line 38-40: a discriminant (tt) and *)
(* an 8-byte payload.  The payload is kept as four 16-bit limbs, least     *)
(* significant first, so that the 64-bit MrInt (line 27) and the `as i32`  *)
(* narrowing of line 116 keep their widths.                                *)
(***************************************************************************)
EXTENDS Integers, Sequences, FiniteSets, TLC

VARIABLES
    heap,     \* the interpreter's objects (strings, arrays, Data objects)
    symtab,   \* the interpreter's interned symbol names, id = index
    cells,    \* the Rc<RefCell<T>> allocations made by MrValue::obj
    handles,  \* per cell: live Rc handles the host got from to_obj
    val,      \* the MrValue the host currently holds
    inp,      \* how val was obtained: constructor name and its argument
    ret,      \* the last converter call on val: name and Result
    ncalls,   \* converter calls made on val since it was obtained
    hist      \* per heap object: the Vec given to array(), mutations since,
              \* handles taken from it by to_obj

vars == <<heap, symtab, cells, handles, val, inp, ret, ncalls, hist>>

(***************************************************************************)
(* Bounds of the model.                                                    *)
(***************************************************************************)
MaxData == 2      \* Data objects embedded by obj
MaxHandles == 2   \* handles the host takes from one cell by to_obj, in all
MaxArrays == 1    \* arrays allocated by array
MaxLen == 2       \* length of a Vec given to array
MaxMut == 1       \* interpreter-side array mutations
MaxStrs == 1      \* strings allocated, and symbols interned
MaxStrLen == 2    \* length of a &str given to string or symbol
MaxCalls == 2     \* converter calls on one held value

(***************************************************************************)
(* Widths.                                                                 *)
(***************************************************************************)
LimbBase == 65536
LimbSign == 32768

Limbs == 0 .. (LimbBase - 1)

(***************************************************************************)
(* MrType, lines 239-265.  There is no discriminant for nil.               *)
(***************************************************************************)
MrType ==
    { "MRB_TT_FALSE", "MRB_TT_TRUE", "MRB_TT_FLOAT", "MRB_TT_FIXNUM",
      "MRB_TT_SYMBOL", "MRB_TT_UNDEF", "MRB_TT_CPTR", "MRB_TT_FREE",
      "MRB_TT_OBJECT", "MRB_TT_CLASS", "MRB_TT_MODULE", "MRB_TT_ICLASS",
      "MRB_TT_SCLASS", "MRB_TT_PROC", "MRB_TT_ARRAY", "MRB_TT_HASH",
      "MRB_TT_STRING", "MRB_TT_RANGE", "MRB_TT_EXCEPTION", "MRB_TT_ENV",
      "MRB_TT_DATA", "MRB_TT_FIBER", "MRB_TT_ISTRUCT", "MRB_TT_BREAK",
      "MRB_TT_MAXDEFINE" }

\* struct MrValue { _buf: [u8; 16] }: discriminant and 8-byte payload.
MrValue(tt, w) == [tt |-> tt, w |-> w]

\* A payload holding a small non-negative number (an id, an index, an address).
Word(n) == <<n, 0, 0, 0>>

\* MrValue::typ, lines 214-217: mrb_ext_type reads the discriminant.
typ(v) == v.tt

(***************************************************************************)
(* Integer casts of Rust: `as MrInt` (i32 -> i64) sign-extends, `as i32`   *)
(* (i64 -> i32) keeps the low 32 bits.  An i32 is an integer in            *)
(* -2^31 .. 2^31-1, an i64 is its four limbs.                              *)
(***************************************************************************)
as_MrInt(value) ==
    LET l0 == value % LimbBase
        l1 == (value \div LimbBase) % LimbBase
        ext == IF l1 >= LimbSign THEN LimbBase - 1 ELSE 0
    IN  <<l0, l1, ext, ext>>

as_i32(n) ==
    LET hi == IF n[2] >= LimbSign THEN n[2] - LimbBase ELSE n[2]
    IN  hi * LimbBase + n[1]

(***************************************************************************)
(* Result<T, MrubyError>.                                                  *)
(***************************************************************************)
Ok(x) == [ok |-> TRUE, val |-> x, err |-> ""]

Cast(name) == [ok |-> FALSE, val |-> <<>>, err |-> name]

IsOk(r, x) == r.ok /\ r.val = x

IsCast(r, name) == (~r.ok) /\ r.err = name

(***************************************************************************)
(* The interpreter's side of the primitive encodings (extern "C", lines    *)
(* 337-352).  nil carries the FALSE discriminant with a zero payload:      *)
(* MrType has no member for it.                                            *)
(***************************************************************************)
mrb_ext_nil == MrValue("MRB_TT_FALSE", Word(0))

mrb_ext_false == MrValue("MRB_TT_FALSE", Word(1))

mrb_ext_true == MrValue("MRB_TT_TRUE", Word(1))

mrb_ext_cint_to_fixnum(n) == MrValue("MRB_TT_FIXNUM", n)

mrb_ext_fixnum_to_cint(v) == v.w

mrb_ext_cdouble_to_float(f) == MrValue("MRB_TT_FLOAT", Word(f))

mrb_ext_float_to_cdouble(v) == v.w[1]

mrb_ext_set_ptr(p) == MrValue("MRB_TT_CPTR", Word(p))

mrb_ext_get_ptr(v) == v.w[1]

mrb_ext_class_ptr(v) == v.w[1]

(***************************************************************************)
(* Outbound constructors that allocate nothing, lines 43-65 and 98-101.    *)
(***************************************************************************)
MrValue_nil == mrb_ext_nil

MrValue_bool(value) == IF value THEN mrb_ext_true ELSE mrb_ext_false

MrValue_fixnum(value) == mrb_ext_cint_to_fixnum(as_MrInt(value))

MrValue_float(value) == mrb_ext_cdouble_to_float(value)

MrValue_ptr(value) == mrb_ext_set_ptr(value)

(***************************************************************************)
(* Interpreter objects.  One record shape for every object: a string uses  *)
(* bytes, an array elems and capa, a Data object ptr.  live is FALSE once  *)
(* the collector has released the object.                                  *)
(***************************************************************************)
StrObj(bytes) ==
    [tt |-> "MRB_TT_STRING", live |-> TRUE, elems |-> <<>>, capa |-> 0,
     bytes |-> bytes, ptr |-> 0]

AryObj(elems, capa) ==
    [tt |-> "MRB_TT_ARRAY", live |-> TRUE, elems |-> elems, capa |-> capa,
     bytes |-> <<>>, ptr |-> 0]

DataObj(ptr) ==
    [tt |-> "MRB_TT_DATA", live |-> TRUE, elems |-> <<>>, capa |-> 0,
     bytes |-> <<>>, ptr |-> ptr]

\* The value naming heap object number o.
ObjRef(h, o) == MrValue(h[o].tt, Word(o))

\* The object a value names.
Deref(h, v) == h[v.w[1]]

HeapTypes == {"MRB_TT_STRING", "MRB_TT_ARRAY", "MRB_TT_DATA"}

\* The callers' obligation of these unsafe fns: a value of a heap variant
\* names an object the collector has not released.
Valid(h, v) ==
    typ(v) \in HeapTypes =>
        /\ v.w[1] \in 1 .. Len(h)
        /\ h[v.w[1]].live
        /\ h[v.w[1]].tt = typ(v)

(***************************************************************************)
(* Allocation and inspection primitives of the interpreter, lines 348-371. *)
(***************************************************************************)
\* mrb_str_new: copies len bytes from the pointer.
mrb_str_new(bytes) == StrObj(bytes)

\* mrb_str_to_cstr: the bytes followed by the terminating NUL.
mrb_str_to_cstr(h, v) == Deref(h, v).bytes \o <<0>>

\* mrb_ext_sym_new: interns; the id of an equal earlier name is reused.
SymId(st, name) ==
    IF \E k \in 1 .. Len(st) : st[k] = name
    THEN CHOOSE k \in 1 .. Len(st) : st[k] = name
    ELSE Len(st) + 1

mrb_ext_sym_new_tab(st, name) ==
    IF SymId(st, name) > Len(st) THEN Append(st, name) ELSE st

mrb_ext_sym_new(st, name) == MrValue("MRB_TT_SYMBOL", Word(SymId(st, name)))

\* mrb_ext_sym2name: the name followed by the terminating NUL.
mrb_ext_sym2name(st, v) == st[v.w[1]] \o <<0>>

\* CStr::from_ptr(s).to_str().unwrap(): the bytes before the first NUL.
CStr_from_ptr(buf) ==
    LET n == CHOOSE k \in 1 .. Len(buf) :
                 buf[k] = 0 /\ \A j \in 1 .. (k - 1) : buf[j] # 0
    IN  SubSeq(buf, 1, n - 1)

\* mrb_ary_new_capa: an empty array with room for capa elements.
mrb_ary_new_capa(capa) == AryObj(<<>>, capa)

\* mrb_ary_set: index i counts from 0; the array grows, nil-filled, to hold it.
mrb_ary_set(obj, i, v) ==
    LET len == Len(obj.elems)
        grown == IF i < len
                 THEN obj.elems
                 ELSE obj.elems \o [k \in 1 .. (i + 1 - len) |-> mrb_ext_nil]
    IN  [obj EXCEPT !.elems = [grown EXCEPT ![i + 1] = v]]

\* mrb_ary_ref: nil outside the array.
mrb_ary_ref(obj, i) ==
    IF i >= 0 /\ i < Len(obj.elems) THEN obj.elems[i + 1] ELSE mrb_ext_nil

mrb_ext_ary_len(obj) == Len(obj.elems)

\* mrb_data_get_ptr: the payload pointer stored in the Data object.
mrb_data_get_ptr(h, v) == Deref(h, v).ptr

(***************************************************************************)
(* std::rc::Rc.  A cell is the heap allocation behind Rc<RefCell<T>>:      *)
(* its strong count and how many times its storage has been freed.         *)
(***************************************************************************)
Rc_new(c) == Append(c, [strong |-> 1, frees |-> 0])

Rc_clone(c, p) == [c EXCEPT ![p].strong = @ + 1]

\* Dropping one handle: the count falls by one, the storage is freed at zero.
Rc_drop(c, p) ==
    IF c[p].strong > 1
    THEN [c EXCEPT ![p].strong = @ - 1]
    ELSE [c EXCEPT ![p].strong = 0, ![p].frees = @ + 1]

(***************************************************************************)
(* Outbound constructors that allocate, lines 67-96.  Each gives the       *)
(* object (or table) the interpreter holds afterwards; the action that     *)
(* calls it stores the object and hands the host the value naming it.      *)
(***************************************************************************)
MrValue_string(value) == mrb_str_new(value)

MrValue_symbol(st, value) == mrb_ext_sym_new(st, value)

\* for (i, value) in value.iter().enumerate() { mrb_ary_set(mrb, array, i, *value) }
RECURSIVE array_loop(_, _, _)
array_loop(array, value, i) ==
    IF i >= Len(value)
    THEN array
    ELSE array_loop(mrb_ary_set(array, i, value[i + 1]), value, i + 1)

\* A faulty variant of array: the slots are written from the last one down,
\* slot len-1-i getting value[i].
RECURSIVE array_loop_rev(_, _, _)
array_loop_rev(array, value, i) ==
    IF i >= Len(value)
    THEN array
    ELSE array_loop_rev(mrb_ary_set(array, Len(value) - 1 - i, value[i + 1]),
                        value, i + 1)

MrValue_array_rev(value) ==
    array_loop_rev(mrb_ary_new_capa(Len(value)), value, 0)

MrValue_array(value) == array_loop(mrb_ary_new_capa(Len(value)), value, 0)

\* let rc = Rc::new(RefCell::new(obj)); the pointer goes into a new Data object.
MrValue_obj(c) == [cells |-> Rc_new(c), obj |-> DataObj(Len(c) + 1)]

(***************************************************************************)
(* Inbound converters, lines 103-212.                                      *)
(***************************************************************************)
\* A faulty variant of to_bool: the interpreter's truthiness, every value
\* but false and nil being true.
MrValue_to_bool_truthy(v) ==
    CASE typ(v) = "MRB_TT_FALSE" -> Ok(FALSE)
      [] OTHER -> Ok(TRUE)

MrValue_to_bool(v) ==
    CASE typ(v) = "MRB_TT_FALSE" -> Ok(FALSE)
      [] typ(v) = "MRB_TT_TRUE" -> Ok(TRUE)
      [] OTHER -> Cast("TrueClass or FalseClass")

\* Whether the i64 n lies in the i32 range: its upper half is the sign
\* extension of its lower half.
InI32Range(n) ==
    \/ n[2] < LimbSign /\ n[3] = 0 /\ n[4] = 0
    \/ n[2] >= LimbSign /\ n[3] = LimbBase - 1 /\ n[4] = LimbBase - 1

\* A faulty variant of to_i32: the narrowing keeps 16 bits (`as i16 as i32`).
MrValue_to_i32_i16(v) ==
    CASE typ(v) = "MRB_TT_FIXNUM" ->
             LET n == mrb_ext_fixnum_to_cint(v)
             IN  Ok(IF n[1] >= LimbSign THEN n[1] - LimbBase ELSE n[1])
      [] OTHER -> Cast("Fixnum")

\* A faulty variant of to_i32: the narrowing saturates at the ends of i32.
MrValue_to_i32_sat(v) ==
    CASE typ(v) = "MRB_TT_FIXNUM" ->
             LET n == mrb_ext_fixnum_to_cint(v)
             IN  Ok(IF InI32Range(n) THEN as_i32(n)
                    ELSE IF n[4] >= LimbSign THEN -2147483647 - 1
                    ELSE 2147483647)
      [] OTHER -> Cast("Fixnum")

MrValue_to_i32(v) ==
    CASE typ(v) = "MRB_TT_FIXNUM" -> Ok(as_i32(mrb_ext_fixnum_to_cint(v)))
      [] OTHER -> Cast("Fixnum")

MrValue_to_f64(v) ==
    CASE typ(v) = "MRB_TT_FLOAT" -> Ok(mrb_ext_float_to_cdouble(v))
      [] OTHER -> Cast("Float")

MrValue_to_str(v, h, st) ==
    CASE typ(v) = "MRB_TT_STRING" -> Ok(CStr_from_ptr(mrb_str_to_cstr(h, v)))
      [] typ(v) = "MRB_TT_SYMBOL" -> Ok(CStr_from_ptr(mrb_ext_sym2name(st, v)))
      [] OTHER -> Cast("String")

\* A faulty variant of to_obj: mem::forget(rc) is missing, so the
\* transmuted Rc is dropped when to_obj returns and takes back the count
\* that clone added.
MrValue_to_obj_noforget(v, h, c) ==
    CASE typ(v) = "MRB_TT_DATA" ->
             LET ptr == mrb_data_get_ptr(h, v)
             IN  [res |-> Ok(ptr), cells |-> Rc_drop(Rc_clone(c, ptr), ptr)]
      [] OTHER ->
             [res |-> Cast("Data(Rust Rc<RefCell<T>>)"), cells |-> c]

\* A faulty variant of to_obj: the clone is forgotten too and a second one
\* is returned, so each call counts two.
MrValue_to_obj_leak(v, h, c) ==
    CASE typ(v) = "MRB_TT_DATA" ->
             LET ptr == mrb_data_get_ptr(h, v)
             IN  [res |-> Ok(ptr), cells |-> Rc_clone(Rc_clone(c, ptr), ptr)]
      [] OTHER ->
             [res |-> Cast("Data(Rust Rc<RefCell<T>>)"), cells |-> c]

\* A faulty variant of to_obj: the transmuted Rc itself is returned, with
\* no clone.
MrValue_to_obj_noclone(v, h, c) ==
    CASE typ(v) = "MRB_TT_DATA" ->
             [res |-> Ok(mrb_data_get_ptr(h, v)), cells |-> c]
      [] OTHER ->
             [res |-> Cast("Data(Rust Rc<RefCell<T>>)"), cells |-> c]

\* The Result and the cells afterwards: transmute gives an Rc without
\* counting, clone counts one more, forget keeps the transmuted Rc from
\* being dropped.
MrValue_to_obj(v, h, c) ==
    CASE typ(v) = "MRB_TT_DATA" ->
             LET ptr == mrb_data_get_ptr(h, v)
             IN  [res |-> Ok(ptr), cells |-> Rc_clone(c, ptr)]
      [] OTHER ->
             [res |-> Cast("Data(Rust Rc<RefCell<T>>)"), cells |-> c]

\* for i in 0..len { vec.push(mrb_ary_ref(mrb, *self, i)) }
RECURSIVE to_vec_loop(_, _, _, _)
to_vec_loop(obj, i, len, vec) ==
    IF i >= len
    THEN vec
    ELSE to_vec_loop(obj, i + 1, len, Append(vec, mrb_ary_ref(obj, i)))

\* A faulty variant of to_vec: the length is the one the array was
\* allocated with, not the one it has now.
MrValue_to_vec_capa(v, h) ==
    CASE typ(v) = "MRB_TT_ARRAY" ->
             Ok(to_vec_loop(Deref(h, v), 0, Deref(h, v).capa, <<>>))
      [] OTHER -> Cast("Array")

MrValue_to_vec(v, h) ==
    CASE typ(v) = "MRB_TT_ARRAY" ->
             LET len == mrb_ext_ary_len(Deref(h, v))
             IN  Ok(to_vec_loop(Deref(h, v), 0, len, <<>>))
      [] OTHER -> Cast("Array")

MrValue_to_class(v) ==
    CASE typ(v) = "MRB_TT_CLASS" -> Ok(mrb_ext_class_ptr(v))
      [] OTHER -> Cast("Class")

MrValue_to_module(v) ==
    CASE typ(v) = "MRB_TT_MODULE" -> Ok(mrb_ext_class_ptr(v))
      [] OTHER -> Cast("Module")

MrValue_to_ptr(v) ==
    CASE typ(v) = "MRB_TT_CPTR" -> Ok(mrb_ext_get_ptr(v))
      [] OTHER -> Cast("Pointer")

(***************************************************************************)
(* Inputs.                                                                 *)
(***************************************************************************)
\* i32 arguments of fixnum: the ends of the range, the limb borders, zero.
I32Inputs == {-2147483647 - 1, -65537, -65536, -1, 0, 1, 65535, 65536, 2147483647}

\* MrInt payloads the interpreter itself computed, outside the i32 range:
\* 2^31, 2^32 + 5, -2^31 - 1, 2^63 - 1, -2^63.
WideInts ==
    { <<0, 32768, 0, 0>>, <<5, 0, 1, 0>>, <<65535, 32767, 65535, 65535>>,
      <<65535, 65535, 65535, 32767>>, <<0, 0, 0, 32768>> }

FloatInputs == {1, 2}

PtrInputs == {1, 2}

\* Bytes of a &str: NUL (U+0000 is one byte of UTF-8) and the letter a.
Bytes == {0, 97}

SeqsUpTo(S, n) == UNION {[1 .. k -> S] : k \in 0 .. n}

StrInputs == SeqsUpTo(Bytes, MaxStrLen)

ElemValues == {MrValue_fixnum(1), MrValue_bool(TRUE)}

VecInputs == SeqsUpTo(ElemValues, MaxLen)

(***************************************************************************)
(* The host obtains a value: val is replaced, nothing has been called on   *)
(* it yet.                                                                 *)
(***************************************************************************)
NoRet == [op |-> "none", res |-> Cast("")]

Hold(v, op, arg) ==
    /\ val' = v
    /\ inp' = [op |-> op, arg |-> arg]
    /\ ret' = NoRet
    /\ ncalls' = 0

NoHist == [src |-> <<>>, muts |-> 0, taken |-> 0]

Nil ==
    /\ Hold(MrValue_nil, "nil", <<>>)
    /\ UNCHANGED <<heap, symtab, cells, handles, hist>>

Bool(value) ==
    /\ Hold(MrValue_bool(value), "bool", value)
    /\ UNCHANGED <<heap, symtab, cells, handles, hist>>

Fixnum(value) ==
    /\ Hold(MrValue_fixnum(value), "fixnum", value)
    /\ UNCHANGED <<heap, symtab, cells, handles, hist>>

Float(value) ==
    /\ Hold(MrValue_float(value), "float", value)
    /\ UNCHANGED <<heap, symtab, cells, handles, hist>>

Ptr(value) ==
    /\ Hold(MrValue_ptr(value), "ptr", value)
    /\ UNCHANGED <<heap, symtab, cells, handles, hist>>

String(value) ==
    /\ Len(heap) < MaxStrs
    /\ heap' = Append(heap, MrValue_string(value))
    /\ hist' = Append(hist, NoHist)
    /\ Hold(ObjRef(heap', Len(heap')), "string", value)
    /\ UNCHANGED <<symtab, cells, handles>>

Symbol(value) ==
    /\ Len(mrb_ext_sym_new_tab(symtab, value)) <= MaxStrs
    /\ symtab' = mrb_ext_sym_new_tab(symtab, value)
    /\ Hold(MrValue_symbol(symtab, value), "symbol", value)
    /\ UNCHANGED <<heap, cells, handles, hist>>

Array(value) ==
    /\ Len(heap) < MaxArrays
    /\ heap' = Append(heap, MrValue_array(value))
    /\ hist' = Append(hist, [src |-> value, muts |-> 0, taken |-> 0])
    /\ Hold(ObjRef(heap', Len(heap')), "array", value)
    /\ UNCHANGED <<symtab, cells, handles>>

Obj ==
    /\ Len(heap) < MaxData
    /\ cells' = MrValue_obj(cells).cells
    /\ handles' = Append(handles, 0)
    /\ heap' = Append(heap, MrValue_obj(cells).obj)
    /\ hist' = Append(hist, NoHist)
    /\ Hold(ObjRef(heap', Len(heap')), "obj", <<>>)
    /\ UNCHANGED symtab

\* MrValue is Copy (line 37): the host takes up a copy it kept of the value
\* naming object o.
Take(o) ==
    /\ heap[o].live
    /\ val # ObjRef(heap, o)
    /\ Hold(ObjRef(heap, o), "copy", o)
    /\ UNCHANGED <<heap, symtab, cells, handles, hist>>

(***************************************************************************)
(* What happens around the host's calls: the interpreter mutates an array, *)
(* the collector releases a Data object and runs the deallocation callback *)
(* of its descriptor, the host drops a handle it got from to_obj.  A       *)
(* result obtained earlier says nothing about the state afterwards: ret is *)
(* cleared.                                                                *)
(***************************************************************************)
Env ==
    /\ ret' = NoRet
    /\ ncalls' = 0
    /\ UNCHANGED <<val, inp>>

RECURSIVE SumMuts(_, _)
SumMuts(hs, k) == IF k = 0 THEN 0 ELSE hs[k].muts + SumMuts(hs, k - 1)

IsLiveArray(o) == heap[o].live /\ heap[o].tt = "MRB_TT_ARRAY"

Mutated(o, obj) ==
    /\ IsLiveArray(o)
    /\ SumMuts(hist, Len(hist)) < MaxMut
    /\ heap' = [heap EXCEPT ![o] = obj]
    /\ hist' = [hist EXCEPT ![o].muts = @ + 1]
    /\ Env
    /\ UNCHANGED <<symtab, cells, handles>>

\* An element is replaced.
InterpArySet(o, i, x) ==
    /\ i < Len(heap[o].elems)
    /\ Mutated(o, mrb_ary_set(heap[o], i, x))

\* An element is appended.
InterpAryPush(o, x) ==
    Mutated(o, mrb_ary_set(heap[o], Len(heap[o].elems), x))

\* The last element is removed.
InterpAryPop(o) ==
    /\ Len(heap[o].elems) > 0
    /\ Mutated(o, [heap[o] EXCEPT !.elems = SubSeq(@, 1, Len(@) - 1)])

\* The deallocation callback registered in the descriptor: it rebuilds the
\* Rc from the stored pointer and lets it drop.
free_callback(c, ptr) == Rc_drop(c, ptr)

\* The collector found Data object o unreachable: the callback runs once,
\* and the object is gone.
DfreeCallback(o) ==
    /\ heap[o].live
    /\ heap[o].tt = "MRB_TT_DATA"
    /\ cells' = free_callback(cells, heap[o].ptr)
    /\ heap' = [heap EXCEPT ![o].live = FALSE]
    /\ Env
    /\ UNCHANGED <<symtab, handles, hist>>

\* Dropping a handle of a cell whose storage is already freed is a use
\* after free: the count it decrements is garbage, and the storage may be
\* freed again or not.
DropOutcomes(c, p) ==
    IF c[p].strong = 0
    THEN {c, [c EXCEPT ![p].frees = @ + 1]}
    ELSE {Rc_drop(c, p)}

\* The host lets go of one handle it got from to_obj.
DropHandle(p) ==
    /\ handles[p] > 0
    /\ handles' = [handles EXCEPT ![p] = @ - 1]
    /\ cells' \in DropOutcomes(cells, p)
    /\ Env
    /\ UNCHANGED <<heap, symtab, hist>>

(***************************************************************************)
(* The host calls a converter on the value it holds.                       *)
(***************************************************************************)
Called(op, res) ==
    /\ Valid(heap, val)
    /\ ncalls < MaxCalls
    /\ ret' = [op |-> op, res |-> res]
    /\ ncalls' = ncalls + 1
    /\ UNCHANGED <<heap, symtab, val, inp>>

ToBool ==
    /\ Called("to_bool", MrValue_to_bool(val))
    /\ UNCHANGED <<cells, handles, hist>>

ToI32 ==
    /\ Called("to_i32", MrValue_to_i32(val))
    /\ UNCHANGED <<cells, handles, hist>>

ToF64 ==
    /\ Called("to_f64", MrValue_to_f64(val))
    /\ UNCHANGED <<cells, handles, hist>>

ToStr ==
    /\ Called("to_str", MrValue_to_str(val, heap, symtab))
    /\ UNCHANGED <<cells, handles, hist>>

\* An Ok result is one more handle in the host's hands.
ToObj ==
    /\ Valid(heap, val)
    /\ typ(val) = "MRB_TT_DATA" => hist[val.w[1]].taken < MaxHandles
    /\ LET r == MrValue_to_obj(val, heap, cells)
       IN  /\ Called("to_obj", r.res)
           /\ cells' = r.cells
           /\ handles' = IF r.res.ok
                         THEN [handles EXCEPT ![r.res.val] = @ + 1]
                         ELSE handles
           /\ hist' = IF r.res.ok
                      THEN [hist EXCEPT ![val.w[1]].taken = @ + 1]
                      ELSE hist

ToVec ==
    /\ Called("to_vec", MrValue_to_vec(val, heap))
    /\ UNCHANGED <<cells, handles, hist>>

ToClass ==
    /\ Called("to_class", MrValue_to_class(val))
    /\ UNCHANGED <<cells, handles, hist>>

ToModule ==
    /\ Called("to_module", MrValue_to_module(val))
    /\ UNCHANGED <<cells, handles, hist>>

ToPtr ==
    /\ Called("to_ptr", MrValue_to_ptr(val))
    /\ UNCHANGED <<cells, handles, hist>>

Converters ==
    \/ ToBool
    \/ ToI32
    \/ ToF64
    \/ ToStr
    \/ ToObj
    \/ ToVec
    \/ ToClass
    \/ ToModule
    \/ ToPtr

(***************************************************************************)
(* Spec: the ownership bridge.  The host embeds values, takes handles,     *)
(* drops them; the collector releases Data objects.                        *)
(***************************************************************************)
Init ==
    /\ heap = <<>>
    /\ symtab = <<>>
    /\ cells = <<>>
    /\ handles = <<>>
    /\ hist = <<>>
    /\ val = MrValue_nil
    /\ inp = [op |-> "nil", arg |-> <<>>]
    /\ ret = NoRet
    /\ ncalls = 0

Next ==
    \/ Obj
    \/ \E o \in 1 .. Len(heap) : Take(o)
    \/ ToObj
    \/ \E p \in 1 .. Len(cells) : DropHandle(p)
    \/ \E o \in 1 .. Len(heap) : DfreeCallback(o)

Spec == Init /\ [][Next]_vars

(***************************************************************************)
(* SpecAry: arrays.  The host allocates arrays and reads them back while   *)
(* the interpreter mutates them.                                           *)
(***************************************************************************)
NextAry ==
    \/ \E value \in VecInputs : Array(value)
    \/ \E o \in 1 .. Len(heap), x \in ElemValues :
           \E i \in 0 .. MaxLen : InterpArySet(o, i, x)
    \/ \E o \in 1 .. Len(heap), x \in ElemValues : InterpAryPush(o, x)
    \/ \E o \in 1 .. Len(heap) : InterpAryPop(o)
    \/ ToVec

SpecAry == Init /\ [][NextAry]_vars

(***************************************************************************)
(* SpecStr: strings and symbols.                                           *)
(***************************************************************************)
NextStr ==
    \/ \E value \in StrInputs : String(value)
    \/ \E value \in StrInputs : Symbol(value)
    \/ ToStr

SpecStr == Init /\ [][NextStr]_vars

(***************************************************************************)
(* SpecConv: the converters as functions of the value.  The host starts    *)
(* with a value the interpreter passed to it, of any variant, and holds    *)
(* further ones it encodes itself; the interpreter's heap holds one string,*)
(* one array and one embedded Data object for the values that name them.   *)
(***************************************************************************)
Received ==
    {MrValue(tt, Word(1)) : tt \in MrType \ (HeapTypes \cup {"MRB_TT_FIXNUM"})}
        \cup {MrValue("MRB_TT_FIXNUM", n) : n \in WideInts}
        \cup {MrValue("MRB_TT_STRING", Word(1)), MrValue("MRB_TT_ARRAY", Word(2)),
              MrValue("MRB_TT_DATA", Word(3))}

InitConv ==
    /\ heap = <<MrValue_string(<<97>>), MrValue_array(<<MrValue_fixnum(1)>>),
                MrValue_obj(<<>>).obj>>
    /\ symtab = mrb_ext_sym_new_tab(<<>>, <<97>>)
    /\ cells = MrValue_obj(<<>>).cells
    /\ handles = <<0>>
    /\ hist = <<NoHist, [src |-> <<MrValue_fixnum(1)>>, muts |-> 0, taken |-> 0],
                NoHist>>
    /\ val \in Received
    /\ inp = [op |-> "received", arg |-> <<>>]
    /\ ret = NoRet
    /\ ncalls = 0

NextConv ==
    \/ Nil
    \/ \E value \in BOOLEAN : Bool(value)
    \/ \E value \in I32Inputs : Fixnum(value)
    \/ \E value \in FloatInputs : Float(value)
    \/ \E value \in PtrInputs : Ptr(value)
    \/ Converters

SpecConv == InitConv /\ [][NextConv]_vars

(***************************************************************************)
(* Properties.                                                             *)
(***************************************************************************)
Cells == 1 .. Len(cells)

DataObjs(p) ==
    {o \in 1 .. Len(heap) : heap[o].tt = "MRB_TT_DATA" /\ heap[o].ptr = p}

\* 1 while the interpreter's Data object still holds its handle of cell p.
InterpHolds(p) == IF \E o \in DataObjs(p) : heap[o].live THEN 1 ELSE 0

\* The deallocation callback has run for the Data object of cell p.
CallbackRan(p) == \E o \in DataObjs(p) : ~heap[o].live

\* Handles ever taken from cell p by to_obj.
Taken(p) == hist[CHOOSE o \in DataObjs(p) : TRUE].taken

\* C1: at all times the reference count of every embedded cell equals the
\* number of live handles produced by to_obj, plus one for the handle held
\* by the interpreter's Data object until the deallocation callback has run
\* for it.
C1_RefCount ==
    \A p \in Cells : cells[p].strong = handles[p] + InterpHolds(p)

C1_Witness ==
    \E p, q \in Cells :
        /\ handles[p] = 2 /\ InterpHolds(p) = 1 /\ cells[p].strong = 3
        /\ handles[q] = 1 /\ CallbackRan(q) /\ cells[q].strong = 1

\* C2: the storage of an embedded value is not freed while a retrieved
\* handle or the interpreter's handle is live; once every retrieved handle
\* is dropped and the callback has run, the count is zero and the storage
\* has been freed exactly once; it is never freed twice.
C2_FreedOnce ==
    \A p \in Cells :
        /\ (handles[p] > 0 \/ InterpHolds(p) = 1) => cells[p].frees = 0
        /\ (handles[p] = 0 /\ CallbackRan(p)) =>
               (cells[p].strong = 0 /\ cells[p].frees = 1)
        /\ cells[p].frees <= 1

C2_Witness ==
    \E p, q \in Cells :
        /\ Taken(p) = 2 /\ handles[p] = 0 /\ CallbackRan(p)
        /\ cells[p].strong = 0 /\ cells[p].frees = 1
        /\ handles[q] > 0 /\ CallbackRan(q) /\ cells[q].frees = 0

\* A step in which the host calls a converter.
ConverterStep == ncalls' = ncalls + 1

\* A converter called again on the same value gives the same result.
SameAgain == (ncalls >= 1 /\ ret.op = ret'.op) => ret'.res = ret.res

\* C3, as stated: every converter call leaves the interpreter's objects, the
\* symbol table and the reference counts of the embedded cells unchanged,
\* and a second call gives the same result as the first.
C3_Stateless ==
    [][ConverterStep =>
          /\ heap' = heap
          /\ symtab' = symtab
          /\ cells' = cells
          /\ SameAgain]_vars

\* C3, amended: every converter call leaves the interpreter's objects
\* (array contents, the handle stored in a Data object, strings) and the
\* symbol table unchanged and a second call gives the same result; every
\* call leaves the reference counts unchanged too, except a to_obj call
\* that returns Ok, which adds exactly one to the count of the cell it
\* returns.
C3_StatelessButToObj ==
    [][ConverterStep =>
          /\ heap' = heap
          /\ symtab' = symtab
          /\ SameAgain
          /\ cells' = IF ret'.op = "to_obj" /\ ret'.res.ok
                      THEN [cells EXCEPT ![ret'.res.val].strong = @ + 1]
                      ELSE cells]_vars

C3_Witness ==
    /\ ret.op = "to_obj"
    /\ ret.res.ok
    /\ ncalls = 2
    /\ cells[ret.res.val].strong = 3

\* The discriminants a converter accepts.
Accepts(op) ==
    CASE op = "to_bool" -> {"MRB_TT_TRUE", "MRB_TT_FALSE"}
      [] op = "to_i32" -> {"MRB_TT_FIXNUM"}
      [] op = "to_f64" -> {"MRB_TT_FLOAT"}
      [] op = "to_str" -> {"MRB_TT_STRING", "MRB_TT_SYMBOL"}
      [] op = "to_obj" -> {"MRB_TT_DATA"}
      [] op = "to_vec" -> {"MRB_TT_ARRAY"}
      [] op = "to_class" -> {"MRB_TT_CLASS"}
      [] op = "to_module" -> {"MRB_TT_MODULE"}
      [] op = "to_ptr" -> {"MRB_TT_CPTR"}

\* The name a converter's Cast error carries.
Expected(op) ==
    CASE op = "to_bool" -> "TrueClass or FalseClass"
      [] op = "to_i32" -> "Fixnum"
      [] op = "to_f64" -> "Float"
      [] op = "to_str" -> "String"
      [] op = "to_obj" -> "Data(Rust Rc<RefCell<T>>)"
      [] op = "to_vec" -> "Array"
      [] op = "to_class" -> "Class"
      [] op = "to_module" -> "Module"
      [] op = "to_ptr" -> "Pointer"

\* C4: a converter called on a value whose discriminant it does not accept
\* returns a Cast error naming what it expected, never Ok; so do
\* to_i32(nil()), to_bool(fixnum(0)), to_str(bool(true)) and
\* to_vec(float(1.0)).
C4_CastOnMismatch ==
    /\ (ret.op # "none" /\ typ(val) \notin Accepts(ret.op)) =>
           IsCast(ret.res, Expected(ret.op))
    /\ (inp.op = "nil" /\ ret.op = "to_i32") => IsCast(ret.res, "Fixnum")
    /\ (inp.op = "fixnum" /\ inp.arg = 0 /\ ret.op = "to_bool") =>
           IsCast(ret.res, "TrueClass or FalseClass")
    /\ (inp.op = "bool" /\ inp.arg /\ ret.op = "to_str") =>
           IsCast(ret.res, "String")
    /\ (inp.op = "float" /\ inp.arg = 1 /\ ret.op = "to_vec") =>
           IsCast(ret.res, "Array")

C4_Witness ==
    /\ inp.op = "fixnum"
    /\ inp.arg = 0
    /\ ret.op = "to_bool"
    /\ IsCast(ret.res, "TrueClass or FalseClass")

\* C5: to_bool returns Ok only for the true value (giving true) and the
\* false value (giving false); for every other value, the one nil() makes
\* included, it returns a Cast error.
C5_OnlyTrueFalse ==
    ret.op = "to_bool" =>
        IF val \in {MrValue_bool(TRUE), MrValue_bool(FALSE)}
        THEN IsOk(ret.res, val = MrValue_bool(TRUE))
        ELSE IsCast(ret.res, "TrueClass or FalseClass")

\* C6: for every i32 i, to_i32(fixnum(i)) is Ok(i).
C6_FixnumRoundTrip ==
    (inp.op = "fixnum" /\ ret.op = "to_i32") => IsOk(ret.res, inp.arg)

C6_Witness ==
    /\ inp.op = "fixnum"
    /\ inp.arg = -2147483647 - 1
    /\ ret.op = "to_i32"
    /\ IsOk(ret.res, inp.arg)

\* C7: to_vec of the value array(v) returned, the interpreter not having
\* touched the array, is Ok of a sequence equal to v: same length, same
\* element at every index.
C7_ArrayRoundTrip ==
    (ret.op = "to_vec" /\ typ(val) = "MRB_TT_ARRAY" /\ hist[val.w[1]].muts = 0) =>
        IsOk(ret.res, hist[val.w[1]].src)

C7_Witness ==
    /\ ret.op = "to_vec"
    /\ typ(val) = "MRB_TT_ARRAY"
    /\ hist[val.w[1]].muts = 0
    /\ hist[val.w[1]].src = <<MrValue_fixnum(1), MrValue_bool(TRUE)>>
    /\ IsOk(ret.res, hist[val.w[1]].src)

\* C8: for every string s, to_str(string(s)) and to_str(symbol(s)) are Ok(s).
C8_StrRoundTrip ==
    (inp.op \in {"string", "symbol"} /\ ret.op = "to_str") =>
        IsOk(ret.res, inp.arg)

\* C9: to_vec returns the array as it is when inspected: after the
\* interpreter replaced, appended or removed elements, the sequence has the
\* array's current length and contents, not those it was allocated with.
C9_CurrentContents ==
    (ret.op = "to_vec" /\ typ(val) = "MRB_TT_ARRAY") =>
        /\ ret.res.ok
        /\ Len(ret.res.val) = Len(Deref(heap, val).elems)
        /\ ret.res.val = Deref(heap, val).elems

C9_Witness ==
    /\ ret.op = "to_vec"
    /\ typ(val) = "MRB_TT_ARRAY"
    /\ hist[val.w[1]].muts > 0
    /\ Len(Deref(heap, val).elems) > Len(hist[val.w[1]].src)
    /\ IsOk(ret.res, Deref(heap, val).elems)

\* C10: to_i32 of a Fixnum whose 64-bit integer lies outside the i32 range
\* is still Ok, of the integer's low 32 bits read as two's complement; it is
\* no Cast error and does not saturate.
C10_Truncates ==
    (typ(val) = "MRB_TT_FIXNUM" /\ ~InI32Range(val.w) /\ ret.op = "to_i32") =>
        /\ ret.res.ok
        /\ ret.res.val >= -2147483647 - 1
        /\ ret.res.val <= 2147483647
        /\ ret.res.val % LimbBase = val.w[1]
        /\ (ret.res.val \div LimbBase) % LimbBase = val.w[2]

C10_Witness ==
    /\ val = MrValue("MRB_TT_FIXNUM", <<0, 32768, 0, 0>>)
    /\ ret.op = "to_i32"
    /\ IsOk(ret.res, -2147483647 - 1)

====
